---- MODULE Spec2Model ----
(***************************************************************************)
(* A model of pyesapi/__init__.py: the numpy interfacing layer of PyESAPI. *)
(*                                                                         *)
(*   to_ndarray / check_arrays        pinned copy of a .NET array          *)
(*   fill_in_profiles                 column scan of a dose or image grid  *)
(*   make_segment_mask_for_structure  binary structure mask                *)
(*   make_segment_mask_for_grid       mask with partial boundary voxels    *)
(*   image_to_nparray, dose_to_nparray, make_dose_for_grid                 *)
(*                                                                         *)
(* Physical lengths are integers in a unit chosen so that every half voxel *)
(* and every sub-sample offset is a whole number of units.  Floating point *)
(* values are exact rationals <<n, d>> with d > 0, and NaN is <<0, 0>>;    *)
(* rounding is not modelled.  The ESAPI objects (Structure, Dose, Image)   *)
(* are collaborators: their answers are inputs of the model.               *)
(***************************************************************************)
EXTENDS Integers, Sequences, FiniteSets, TLC

VARIABLES
    SAFE_MODE,      \* module global: verify every copy
    pins,           \* GCHandles currently allocated
    m,              \* the running (or last) to_ndarray call
    ncalls,         \* to_ndarray / check_arrays calls issued so far
    chk,            \* the direct check_arrays call, when that was the last call
    op,             \* the running extraction call and its arguments
    grid,           \* dose_or_image
    structure,      \* the Structure collaborator
    pc,             \* position of the extraction call
    x, y,           \* fill_in_profiles loop indices
    z,              \* image_to_nparray loop index
    start_x,        \* fill_in_profiles running start point
    mask_array,     \* the array fill_in_profiles / image_to_nparray builds
    row_buffer,
    pre_buffer,
    calls,          \* the collaborator queries issued, with what each wrote
    mask_eroded,
    mask_boundary,
    mask_partials,
    todo,           \* boundary voxels still to refine, in np.where order
    nsub,           \* GetSegmentProfile queries issued by the refinement
    calib,          \* dose_to_nparray's reference doses, scale and offset
    dose_array,
    result,         \* what the call returned
    error           \* what the call raised

vars == <<SAFE_MODE, pins, m, ncalls, chk, op, grid, structure, pc, x, y, z,
          start_x, mask_array, row_buffer, pre_buffer, calls, mask_eroded,
          mask_boundary, mask_partials, todo, nsub, calib, dose_array,
          result, error>>

marshalVars == <<SAFE_MODE, pins, m, ncalls, chk>>

extractVars == <<op, grid, structure, pc, x, y, z, start_x, mask_array,
                 row_buffer, pre_buffer, calls, mask_eroded, mask_boundary,
                 mask_partials, todo, nsub, calib, dose_array, result, error>>

----------------------------------------------------------------------------
(* Bounds of the model.                                                    *)

MaxLen == 3         \* longest array handed to to_ndarray / check_arrays
MaxVal == 1         \* largest Int32 element of such an array
MaxCalls == 2       \* marshal calls in one behaviour
GridN == 3          \* edge of the cubic grid a mask is built on
MaxSub == 3         \* largest sub_samples argument
MaxRaw == 1         \* largest raw Int32 dose voxel
MaxRef == 3         \* largest reference dose VoxelToDoseValue answers
MaxDose == 1        \* largest dose GetDoseProfile answers

----------------------------------------------------------------------------
(* Arithmetic.                                                             *)

Abs(i) == IF i < 0 THEN 0 - i ELSE i

RECURSIVE Gcd(_, _)
Gcd(a, b) == IF b = 0 THEN a ELSE Gcd(b, a % b)

RECURSIVE LcmUpTo(_)
LcmUpTo(n) == IF n <= 1 THEN 1
              ELSE LET l == LcmUpTo(n - 1) IN (l * n) \div Gcd(l, n)

\* One voxel edge of the reference grids, in model units.
Unit == 2 * LcmUpTo(MaxSub - 1)

NaN == <<0, 0>>

isnan(f) == f[2] = 0

\* The float n / d, d # 0.
Rat(n, d) == LET g == Gcd(Abs(n), Abs(d))
                 s == IF d < 0 THEN 0 - 1 ELSE 1
             IN <<(s * n) \div g, (s * d) \div g>>

Float(i) == <<i, 1>>

FAdd(a, b) == IF isnan(a) \/ isnan(b) THEN NaN
              ELSE Rat(a[1] * b[2] + b[1] * a[2], a[2] * b[2])

FMul(a, b) == IF isnan(a) \/ isnan(b) THEN NaN
              ELSE Rat(a[1] * b[1], a[2] * b[2])

\* a / b for b # 0 (Python raises ZeroDivisionError for b = 0).
FDiv(a, b) == IF isnan(a) \/ isnan(b) THEN NaN
              ELSE Rat(a[1] * b[2], a[2] * b[1])

\* IEEE comparison: NaN equals nothing.
FEq(a, b) == ~isnan(a) /\ ~isnan(b) /\ a = b

FLe(a, b) == ~isnan(a) /\ ~isnan(b) /\ a[1] * b[2] <= b[1] * a[2]

\* VVector.op_Addition, VVector.op_Multiply
VAdd(u, v) == <<u[1] + v[1], u[2] + v[2], u[3] + v[3]>>

VMul(k, v) == <<k * v[1], k * v[2], k * v[3]>>

\* np.linspace(lo, hi, n)[j], j = 0 .. n-1; the unit makes the step whole.
linspace(lo, hi, n, j) == IF n = 1 THEN lo ELSE lo + (j * (hi - lo)) \div (n - 1)

\* All sequences over S of length 0 .. n.
SeqsUpTo(S, n) == UNION {[1..k -> S] : k \in 0..n}

----------------------------------------------------------------------------
(* to_ndarray and check_arrays.                                            *)

\* Bytes of one element: bool / c_bool 1, Int32 / c_int32 4, Double / c_double 8.
sizeof(ty) == CASE ty = "Bool" -> 1 [] ty = "Int32" -> 4 [] ty = "Double" -> 8

\* string_at(src_ptr, n): the first n bytes of the pinned array; a byte is
\* <<element, offset in the element>>.
string_at(src, ty, n) ==
    [b \in 1..n |-> <<src[((b - 1) \div sizeof(ty)) + 1], (b - 1) % sizeof(ty)>>]

\* np.frombuffer(bytes, dtype): one element per sizeof(dtype) bytes, which is
\* the source element when the bytes are exactly its bytes, in order.
frombuffer(bytes, dtype) ==
    [i \in 1..(Len(bytes) \div sizeof(dtype)) |->
        LET first == (i - 1) * sizeof(dtype) + 1 IN bytes[first][1]]

\* The array to_ndarray builds from src (line 109).
CopyOut(src, ty, dtype) == frombuffer(string_at(src, ty, Len(src) * sizeof(dtype)), dtype)

ElemEq(a, b, ty) == IF ty = "Double" THEN FEq(a, b) ELSE a = b

\* zip(a, b): the index range of the shorter.
ZipDom(a, b) == 1..(IF Len(a) < Len(b) THEN Len(a) ELSE Len(b))

AnyEqual(a, b, ty) == \E i \in ZipDom(a, b) : ElemEq(a[i], b[i], ty)

\* check_arrays(a, b): "ok", or the assertion that failed.
check_arrays(a, b, ty) ==
    IF Len(a) # Len(b) THEN "Arrays are different size!"
    ELSE IF ~AnyEqual(a, b, ty) THEN "Arrays have different values!"
    ELSE "ok"

\* The handle count after the finally block (lines 110-112); the variant
\* frees only when the copy succeeded, as code without try/finally would.
FinallyFreeLeaky(p, isAllocated, failed) == IF isAllocated /\ ~failed THEN p - 1 ELSE p

FinallyFree(p, isAllocated, failed) == IF isAllocated THEN p - 1 ELSE p

Idle == [pc |-> "idle", src |-> <<>>, ty |-> "Int32", dest |-> <<>>,
         exc |-> "none", out |-> "none"]

NoCheck == [a |-> <<>>, b |-> <<>>, out |-> "none"]

Int32Arrays == SeqsUpTo(0..MaxVal, MaxLen)

BoolArrays == SeqsUpTo(BOOLEAN, MaxLen)

ArraysOf(ty) == IF ty = "Bool" THEN BoolArrays ELSE Int32Arrays

\* to_ndarray(src, dtype) is entered.
ToNdarrayCall ==
    /\ m.pc = "idle"
    /\ ncalls < MaxCalls
    /\ \E ty \in {"Bool", "Int32"} : \E src \in ArraysOf(ty) :
          m' = [Idle EXCEPT !.pc = "alloc", !.src = src, !.ty = ty]
    /\ ncalls' = ncalls + 1
    /\ chk' = NoCheck
    /\ UNCHANGED <<SAFE_MODE, pins>>
    /\ UNCHANGED extractVars

\* line 106: GCHandle.Alloc(src, GCHandleType.Pinned) pins the array, or
\* raises and leaves nothing allocated.
Alloc ==
    /\ m.pc = "alloc"
    /\ \/ /\ pins' = pins + 1
          /\ m' = [m EXCEPT !.pc = "try"]
       \/ /\ pins' = pins
          /\ m' = [m EXCEPT !.pc = "idle", !.out = "PinningFailure"]
    /\ UNCHANGED <<SAFE_MODE, ncalls, chk>>
    /\ UNCHANGED extractVars

\* lines 108-109: the copy, which may raise.
Copy ==
    /\ m.pc = "try"
    /\ \/ m' = [m EXCEPT !.pc = "finally", !.dest = CopyOut(m.src, m.ty, m.ty)]
       \/ m' = [m EXCEPT !.pc = "finally", !.exc = "CopyFailure"]
    /\ UNCHANGED <<SAFE_MODE, pins, ncalls, chk>>
    /\ UNCHANGED extractVars

\* lines 110-112: the finally block, then the pending exception if any.
Finally ==
    /\ m.pc = "finally"
    /\ pins' = FinallyFree(pins, TRUE, m.exc # "none")
    /\ m' = IF m.exc # "none"
            THEN [m EXCEPT !.pc = "idle", !.out = m.exc]
            ELSE [m EXCEPT !.pc = "verify"]
    /\ UNCHANGED <<SAFE_MODE, ncalls, chk>>
    /\ UNCHANGED extractVars

\* lines 113-115: the optional verification, and the return.
VerifyReturn ==
    /\ m.pc = "verify"
    /\ LET v == IF SAFE_MODE THEN check_arrays(m.src, m.dest, m.ty) ELSE "ok"
       IN m' = [m EXCEPT !.pc = "idle",
                         !.out = IF v = "ok" THEN "returned" ELSE v]
    /\ UNCHANGED <<SAFE_MODE, pins, ncalls, chk>>
    /\ UNCHANGED extractVars

\* check_arrays(a, b) called on two arrays of its caller's choosing; what it
\* answers depends on nothing else, so it is called as the first call only.
CheckArrays ==
    /\ m.pc = "idle"
    /\ ncalls = 0
    /\ \E a \in Int32Arrays : \E b \in Int32Arrays :
          chk' = [a |-> a, b |-> b, out |-> check_arrays(a, b, "Int32")]
    /\ ncalls' = ncalls + 1
    /\ m' = Idle
    /\ UNCHANGED <<SAFE_MODE, pins>>
    /\ UNCHANGED extractVars

----------------------------------------------------------------------------
(* Grids, arrays and the collaborators.                                    *)

\* The [x, y, z] indices of an array shaped like g.
Idx(g) == (0..(g.XSize - 1)) \X (0..(g.YSize - 1)) \X (0..(g.ZSize - 1))

\* np.zeros(shape)
zeros(g) == [i \in Idx(g) |-> Float(0)]

\* A numpy element stored into a float array.
AsFloat(v, dtype) ==
    CASE dtype = "Bool" -> IF v THEN Float(1) ELSE Float(0)
      [] dtype = "Int32" -> Float(v)
      [] dtype = "Double" -> v

\* The point k (0-based) of the n points a profile samples from start to stop.
ProfilePoint(start, stop, n, k) ==
    <<linspace(start[1], stop[1], n, k), linspace(start[2], stop[2], n, k),
      linspace(start[3], stop[3], n, k)>>

\* Structure.IsPointInsideSegment: the structure is an axis-aligned box, or
\* (inv) everything but the box.
IsPointInsideSegment(s, p) ==
    (\A a \in 1..3 : s.lo[a] <= p[a] /\ p[a] <= s.hi[a]) # s.inv

\* What Structure.GetSegmentProfile(start, stop, buffer) writes to a buffer of n.
GetSegmentProfile(s, start, stop, n) ==
    [k \in 1..n |-> IsPointInsideSegment(s, ProfilePoint(start, stop, n, k - 1))]

CubicGrid(n) ==
    [Origin |-> <<0, 0, 0>>, XRes |-> Unit, YRes |-> Unit, ZRes |-> Unit,
     XSize |-> n, YSize |-> n, ZSize |-> n,
     XDirection |-> <<1, 0, 0>>, YDirection |-> <<0, 1, 0>>,
     ZDirection |-> <<0, 0, 1>>]

\* A grid rotated about z, with unequal sizes and resolutions.
RotatedGrid ==
    [Origin |-> <<Unit, 0 - Unit, 0>>, XRes |-> Unit, YRes |-> 2 * Unit,
     ZRes |-> Unit, XSize |-> 2, YSize |-> 3, ZSize |-> 2,
     XDirection |-> <<0, 1, 0>>, YDirection |-> <<0 - 1, 0, 0>>,
     ZDirection |-> <<0, 0, 1>>]

Box(ix, iy, iz) ==
    [HasSegment |-> TRUE, inv |-> FALSE, lo |-> <<ix[1], iy[1], iz[1]>>,
     hi |-> <<ix[2], iy[2], iz[2]>>]

\* Extents along one axis of a cubic grid of edge n: all of it and more,
\* first to last voxel centre, voxel 0 and half of voxel 1, a part of voxels
\* 0 and 1, one plane of centres.
EnclosingIv(n) == <<0 - Unit, n * Unit>>

Intervals(n) == {EnclosingIv(n), <<0, (n - 1) * Unit>>, <<0 - Unit, Unit \div 2>>,
                 <<Unit \div 2, Unit>>, <<Unit, Unit>>}

Enclosing(n) == Box(EnclosingIv(n), EnclosingIv(n), EnclosingIv(n))

OutsideIv(n) == <<(n + 2) * Unit, (n + 3) * Unit>>

Outside(n) == Box(OutsideIv(n), OutsideIv(n), OutsideIv(n))

NoSegment == [Outside(0) EXCEPT !.HasSegment = FALSE]

Boxes(n) ==
    {Box(ix, iy, iz) : ix \in Intervals(n), iy \in Intervals(n), iz \in Intervals(n)}

Structures(n) ==
    Boxes(n) \cup {[b EXCEPT !.inv = TRUE] : b \in Boxes(n)} \cup {Outside(n), NoSegment}

----------------------------------------------------------------------------
(* fill_in_profiles.                                                       *)

\* line 146
z_direction(g) == VMul((g.ZSize - 1) * g.ZRes, g.ZDirection)

\* line 147
y_step(g) == VMul(g.YRes, g.YDirection)

\* lines 150-151: the start of row xi
x_start(g, xi) == VAdd(g.Origin, VMul(xi * g.XRes, g.XDirection))

\* line 167: the start of the next column of the row
NextStart(start, g) == VAdd(start, y_step(g))

\* line 161: pre_buffer.CopyTo(row_buffer, 0); the variant leaves row_buffer
\* as it was.
CopyToSkipped(pre, row) == row

CopyTo(pre, row) == [i \in 1..Len(row) |-> IF i <= Len(pre) THEN pre[i] ELSE row[i]]

\* line 164: mask_array[xi, yi, :] = vals
SetSlice(arr, xi, yi, vals, dtype) ==
    [i \in DOMAIN arr |-> IF i[1] = xi /\ i[2] = yi
                          THEN AsFloat(vals[i[3] + 1], dtype) ELSE arr[i]]

DoseVals == {NaN} \cup {Float(i) : i \in 0..MaxDose}

\* Where the call goes when a collaborator query raises: nothing catches it.
\* The variant swallows the error and scans on.
FaultSwallowed == "scan"

FaultPc == "raised"

\* profile_fxn and the buffers of the running scan
ScanType == IF op.fn = "mask" THEN "Bool" ELSE "Double"

ProfileAnswers(stop) ==
    IF op.fn = "mask"
    THEN {GetSegmentProfile(structure, start_x, stop, grid.ZSize)}
    ELSE [1..grid.ZSize -> DoseVals]

\* to_ndarray's verification of a copy (lines 113-114)
Verified(src, dest, ty) == IF SAFE_MODE THEN check_arrays(src, dest, ty) ELSE "ok"

\* lines 153-167: one column of the scan, and the loop headers that follow it.
FillColumn ==
    /\ pc = "scan"
    /\ LET stop == VAdd(start_x, z_direction(grid)) IN
       \E wrote \in ProfileAnswers(stop) :
          LET pre == IF op.fn = "mask" THEN wrote ELSE pre_buffer
              row == IF op.fn = "mask" THEN CopyTo(pre, row_buffer) ELSE wrote
              dest == CopyOut(row, ScanType, ScanType)
              v == Verified(row, dest, ScanType)
              last_y == y + 1 = grid.YSize
              last == last_y /\ x + 1 = grid.XSize
          IN /\ pre_buffer' = pre
             /\ row_buffer' = row
             /\ calls' = Append(calls, [start |-> start_x, stop |-> stop,
                                        wrote |-> wrote, failed |-> FALSE])
             /\ IF v # "ok"
                THEN /\ pc' = "raised"
                     /\ error' = v
                     /\ UNCHANGED <<mask_array, x, y, start_x, dose_array>>
                ELSE /\ mask_array' = SetSlice(mask_array, x, y, dest, ScanType)
                     /\ y' = IF last_y THEN 0 ELSE y + 1
                     /\ x' = IF last_y THEN x + 1 ELSE x
                     /\ start_x' = IF last_y /\ ~last THEN x_start(grid, x + 1)
                                   ELSE NextStart(start_x, grid)
                     /\ pc' = IF ~last THEN "scan"
                              ELSE IF op.fn = "mask" THEN "scanned" ELSE "scrub"
                     /\ dose_array' = IF last /\ op.fn = "dose" THEN mask_array'
                                      ELSE dose_array
                     /\ UNCHANGED error
    /\ UNCHANGED <<op, grid, structure, z, mask_eroded, mask_boundary,
                   mask_partials, todo, nsub, calib, result>>
    /\ UNCHANGED marshalVars

\* lines 158, 160: profile_fxn raises; the error leaves fill_in_profiles and
\* its callers.
ScanFault ==
    /\ pc = "scan"
    /\ calls' = Append(calls, [start |-> start_x,
                               stop |-> VAdd(start_x, z_direction(grid)),
                               wrote |-> <<>>, failed |-> TRUE])
    /\ pc' = FaultPc
    /\ error' = "CollaboratorFault"
    /\ UNCHANGED <<op, grid, structure, x, y, z, start_x, mask_array, row_buffer,
                   pre_buffer, mask_eroded, mask_boundary, mask_partials, todo,
                   nsub, calib, dose_array, result>>
    /\ UNCHANGED marshalVars

----------------------------------------------------------------------------
(* make_segment_mask_for_structure and make_segment_mask_for_grid.         *)

\* The six face neighbours of a voxel: scipy's default structuring element
\* generate_binary_structure(3, 1) without its centre.
Neighbours(i) ==
    {<<i[1] - 1, i[2], i[3]>>, <<i[1] + 1, i[2], i[3]>>,
     <<i[1], i[2] - 1, i[3]>>, <<i[1], i[2] + 1, i[3]>>,
     <<i[1], i[2], i[3] - 1>>, <<i[1], i[2], i[3] + 1>>}

\* A float array read as a binary image: nonzero is set.
IsSet(arr, i) == i \in DOMAIN arr /\ arr[i] # Float(0)

\* binary_dilation(mask): one iteration, border_value 0.
binary_dilation(arr) ==
    [i \in DOMAIN arr |-> IsSet(arr, i) \/ \E n \in Neighbours(i) : IsSet(arr, n)]

\* binary_erosion(mask): one iteration, border_value 0, so a voxel with a
\* neighbour outside the array is removed.
binary_erosion(arr) ==
    [i \in DOMAIN arr |-> IsSet(arr, i) /\ \A n \in Neighbours(i) : IsSet(arr, n)]

\* line 187: mask_dilated ^ mask_eroded; the variant forgets the XOR.
BoundaryIsDilated(dilated, eroded) == dilated

Boundary(dilated, eroded) ==
    [i \in DOMAIN dilated |-> dilated[i] # eroded[i]]

\* line 188: sub_samples**3; the variant counts the rays, not the samples.
nsamplesSquared(n) == n * n

nsamples(n) == n * n * n

\* line 182
SubSamplesOk(n) == n > 1

\* The indices of g in C order, as np.where lists them.
IdxSeq(g) ==
    [k \in 1..(g.XSize * g.YSize * g.ZSize) |->
        <<(k - 1) \div (g.YSize * g.ZSize), ((k - 1) \div g.ZSize) % g.YSize,
          (k - 1) % g.ZSize>>]

\* line 189: np.where(mask_boundary)
where(g, barr) == LET Hit(i) == barr[i] IN SelectSeq(IdxSeq(g), Hit)

\* lines 196-206: the profile of sub-sample ray (jx, jy) of voxel i
RayProfile(g, s, i, n, jx, jy) ==
    LET cx == g.Origin[1] + i[1] * g.XRes
        cy == g.Origin[2] + i[2] * g.YRes
        cz == g.Origin[3] + i[3] * g.ZRes
        xf == linspace(0 - (g.XRes \div 2), g.XRes \div 2, n, jx)
        yf == linspace(0 - (g.YRes \div 2), g.YRes \div 2, n, jy)
    IN GetSegmentProfile(s, <<cx + xf, cy + yf, cz - (g.ZRes \div 2)>>,
                         <<cx + xf, cy + yf, cz + (g.ZRes \div 2)>>, n)

\* lines 200-209: f, the sub-samples of voxel i found inside
InsideCount(g, s, i, n) ==
    Cardinality({t \in (0..(n - 1)) \X (0..(n - 1)) \X (1..n) :
                    RayProfile(g, s, i, n, t[1], t[2])[t[3]]})

\* line 212: mask_partials + mask_eroded
AddEroded(partials, eroded) ==
    [i \in DOMAIN partials |->
        FAdd(partials[i], IF eroded[i] THEN Float(1) ELSE Float(0))]

\* lines 176-177 and 217-223: the call is entered and the scan set up, or
\* the structure has no segment.
EnterMask ==
    /\ pc = "call"
    /\ op.fn = "mask"
    /\ IF structure.HasSegment
       THEN /\ pre_buffer' = [k \in 1..grid.ZSize |-> FALSE]
            /\ row_buffer' = [k \in 1..grid.ZSize |-> FALSE]
            /\ mask_array' = zeros(grid)
            /\ x' = 0
            /\ y' = 0
            /\ start_x' = x_start(grid, 0)
            /\ pc' = "scan"
            /\ UNCHANGED error
       ELSE /\ pc' = "raised"
            /\ error' = "structure has no segment data"
            /\ UNCHANGED <<pre_buffer, row_buffer, mask_array, x, y, start_x>>
    /\ UNCHANGED <<op, grid, structure, z, calls, mask_eroded, mask_boundary,
                   mask_partials, todo, nsub, calib, dose_array, result>>
    /\ UNCHANGED marshalVars

\* lines 178-179: no sub_samples, the binary mask is the result.
ReturnMask ==
    /\ pc = "scanned"
    /\ ~op.sub_given
    /\ result' = mask_array
    /\ pc' = "done"
    /\ UNCHANGED <<op, grid, structure, x, y, z, start_x, mask_array, row_buffer,
                   pre_buffer, calls, mask_eroded, mask_boundary, mask_partials,
                   todo, nsub, calib, dose_array, error>>
    /\ UNCHANGED marshalVars

\* line 182: assert sub_samples > 1
RejectSubSamples ==
    /\ pc = "scanned"
    /\ op.sub_given
    /\ ~SubSamplesOk(op.sub_samples)
    /\ pc' = "raised"
    /\ error' = "sub_samples must be > 1"
    /\ UNCHANGED <<op, grid, structure, x, y, z, start_x, mask_array, row_buffer,
                   pre_buffer, calls, mask_eroded, mask_boundary, mask_partials,
                   todo, nsub, calib, dose_array, result>>
    /\ UNCHANGED marshalVars

\* lines 185-192: the boundary of the binary mask
Prepare ==
    /\ pc = "scanned"
    /\ op.sub_given
    /\ SubSamplesOk(op.sub_samples)
    /\ LET mask_dilated == binary_dilation(mask_array)
           eroded == binary_erosion(mask_array)
           boundary == Boundary(mask_dilated, eroded)
       IN /\ mask_eroded' = eroded
          /\ mask_boundary' = boundary
          /\ todo' = where(grid, boundary)
    /\ mask_partials' = zeros(grid)
    /\ pc' = "refine"
    /\ UNCHANGED <<op, grid, structure, x, y, z, start_x, mask_array, row_buffer,
                   pre_buffer, calls, nsub, calib, dose_array, result, error>>
    /\ UNCHANGED marshalVars

\* lines 194-210: one boundary voxel
RefineVoxel ==
    /\ pc = "refine"
    /\ todo # <<>>
    /\ LET i == Head(todo)
           n == op.sub_samples
           f == InsideCount(grid, structure, i, n)
       IN mask_partials' = [mask_partials EXCEPT ![i] = Rat(f, nsamples(n))]
    /\ nsub' = nsub + op.sub_samples * op.sub_samples
    /\ todo' = Tail(todo)
    /\ UNCHANGED <<op, grid, structure, pc, x, y, z, start_x, mask_array,
                   row_buffer, pre_buffer, calls, mask_eroded, mask_boundary,
                   calib, dose_array, result, error>>
    /\ UNCHANGED marshalVars

\* line 206: GetSegmentProfile raises at ray j of the voxel
RefineFault ==
    /\ pc = "refine"
    /\ todo # <<>>
    /\ \E j \in 1..(op.sub_samples * op.sub_samples) : nsub' = nsub + j
    /\ pc' = "raised"
    /\ error' = "CollaboratorFault"
    /\ UNCHANGED <<op, grid, structure, x, y, z, start_x, mask_array, row_buffer,
                   pre_buffer, calls, mask_eroded, mask_boundary, mask_partials,
                   todo, calib, dose_array, result>>
    /\ UNCHANGED marshalVars

\* line 212
ReturnPartials ==
    /\ pc = "refine"
    /\ todo = <<>>
    /\ result' = AddEroded(mask_partials, mask_eroded)
    /\ pc' = "done"
    /\ UNCHANGED <<op, grid, structure, x, y, z, start_x, mask_array, row_buffer,
                   pre_buffer, calls, mask_eroded, mask_boundary, mask_partials,
                   todo, nsub, calib, dose_array, error>>
    /\ UNCHANGED marshalVars

----------------------------------------------------------------------------
(* image_to_nparray, dose_to_nparray and make_dose_for_grid.               *)

\* line 135
Scale(d0, d1) == Float(d1 - d0)

\* lines 136-137
Offset(d0, scale) == FDiv(Float(d0), scale)

\* line 138, one element
calibrated(scale, offset, a) == FAdd(FMul(scale, a), offset)

\* line 236, one element; the variant keeps NaN.
scrubSkipped(v) == v

scrub(v) == IF isnan(v) THEN Float(0) ELSE v

\* line 126: the slice [:, :, zi] from the flat copy of the 2D buffer
SetPlane(arr, g, zi, flat) ==
    [i \in DOMAIN arr |-> IF i[3] = zi
                          THEN AsFloat(flat[i[1] * g.YSize + i[2] + 1], "Int32")
                          ELSE arr[i]]

Refs == 0..MaxRef

DoseOps == {[fn |-> "dose", sub_given |-> FALSE, sub_samples |-> 0, image |-> b] :
               b \in BOOLEAN}

\* lines 229-234, 120-123: the image grid is scanned with GetDoseProfile, or
\* the dose's own voxels are read plane by plane.
EnterDose ==
    /\ pc = "call"
    /\ op.fn = "dose"
    /\ mask_array' = zeros(grid)
    /\ IF op.image
       THEN /\ row_buffer' = [k \in 1..grid.ZSize |-> Float(0)]
            /\ start_x' = x_start(grid, 0)
            /\ pc' = "scan"
       ELSE /\ row_buffer' = [k \in 1..(grid.XSize * grid.YSize) |-> 0]
            /\ pc' = "voxels"
            /\ UNCHANGED start_x
    /\ x' = 0
    /\ y' = 0
    /\ z' = 0
    /\ UNCHANGED <<op, grid, structure, pre_buffer, calls, mask_eroded,
                   mask_boundary, mask_partials, todo, nsub, calib, dose_array,
                   result, error>>
    /\ UNCHANGED marshalVars

\* lines 124-126: one plane of raw voxels
GetVoxelsPlane ==
    /\ pc = "voxels"
    /\ \E wrote \in [1..(grid.XSize * grid.YSize) -> 0..MaxRaw] :
          LET dest == CopyOut(wrote, "Int32", "Int32")
              v == Verified(wrote, dest, "Int32")
          IN /\ row_buffer' = wrote
             /\ calls' = Append(calls, [z |-> z, wrote |-> wrote, failed |-> FALSE])
             /\ IF v # "ok"
                THEN /\ pc' = "raised"
                     /\ error' = v
                     /\ UNCHANGED <<mask_array, z>>
                ELSE /\ mask_array' = SetPlane(mask_array, grid, z, dest)
                     /\ z' = z + 1
                     /\ pc' = IF z + 1 = grid.ZSize THEN "calibrate" ELSE "voxels"
                     /\ UNCHANGED error
    /\ UNCHANGED <<op, grid, structure, x, y, start_x, pre_buffer, mask_eroded,
                   mask_boundary, mask_partials, todo, nsub, calib, dose_array,
                   result>>
    /\ UNCHANGED marshalVars

\* line 125: GetVoxels raises
VoxelsFault ==
    /\ pc = "voxels"
    /\ calls' = Append(calls, [z |-> z, wrote |-> <<>>, failed |-> TRUE])
    /\ pc' = "raised"
    /\ error' = "CollaboratorFault"
    /\ UNCHANGED <<op, grid, structure, x, y, z, start_x, mask_array, row_buffer,
                   pre_buffer, mask_eroded, mask_boundary, mask_partials, todo,
                   nsub, calib, dose_array, result>>
    /\ UNCHANGED marshalVars

\* lines 135-138: the two reference doses, scale, offset and the calibrated
\* array; the division raises when the references are equal.
Calibrate ==
    /\ pc = "calibrate"
    /\ \E d0 \in Refs : \E d1 \in Refs :
          LET scale == Scale(d0, d1) IN
          IF scale = Float(0)
          THEN /\ calib' = [d0 |-> d0, d1 |-> d1, scale |-> scale, offset |-> NaN]
               /\ pc' = "raised"
               /\ error' = "ZeroDivisionError"
               /\ UNCHANGED dose_array
          ELSE LET offset == Offset(d0, scale) IN
               /\ calib' = [d0 |-> d0, d1 |-> d1, scale |-> scale, offset |-> offset]
               /\ dose_array' = [i \in DOMAIN mask_array |->
                                    calibrated(scale, offset, mask_array[i])]
               /\ pc' = "scrub"
               /\ UNCHANGED error
    /\ UNCHANGED <<op, grid, structure, x, y, z, start_x, mask_array, row_buffer,
                   pre_buffer, calls, mask_eroded, mask_boundary, mask_partials,
                   todo, nsub, result>>
    /\ UNCHANGED marshalVars

\* lines 236-237
Scrub ==
    /\ pc = "scrub"
    /\ result' = [i \in DOMAIN dose_array |-> scrub(dose_array[i])]
    /\ pc' = "done"
    /\ UNCHANGED <<op, grid, structure, x, y, z, start_x, mask_array, row_buffer,
                   pre_buffer, calls, mask_eroded, mask_boundary, mask_partials,
                   todo, nsub, calib, dose_array, error>>
    /\ UNCHANGED marshalVars

----------------------------------------------------------------------------
(* Specifications.                                                         *)

NoArray == <<>>

NoCalib == [d0 |-> 0, d1 |-> 0, scale |-> NaN, offset |-> NaN]

NoOp == [fn |-> "none", sub_given |-> FALSE, sub_samples |-> 0, image |-> FALSE]

MaskOps ==
    {[fn |-> "mask", sub_given |-> FALSE, sub_samples |-> 0, image |-> FALSE]}
        \cup {[fn |-> "mask", sub_given |-> TRUE, sub_samples |-> n, image |-> FALSE] :
                  n \in 0..MaxSub}

\* What every call starts from.
Fresh ==
    /\ pins = 0
    /\ m = Idle
    /\ ncalls = 0
    /\ chk = NoCheck
    /\ x = 0
    /\ y = 0
    /\ z = 0
    /\ start_x = <<0, 0, 0>>
    /\ mask_array = NoArray
    /\ row_buffer = <<>>
    /\ pre_buffer = <<>>
    /\ calls = <<>>
    /\ mask_eroded = NoArray
    /\ mask_boundary = NoArray
    /\ mask_partials = NoArray
    /\ todo = <<>>
    /\ nsub = 0
    /\ calib = NoCalib
    /\ dose_array = NoArray
    /\ result = NoArray
    /\ error = "none"

\* Structure.np_mask_like(dose_or_image, sub_samples) on a small grid.
InitMask ==
    /\ Fresh
    /\ SAFE_MODE = FALSE
    /\ op \in MaskOps
    /\ grid \in {CubicGrid(GridN), RotatedGrid}
    /\ structure \in Structures(GridN)
    /\ pc = "call"

NextMask ==
    \/ EnterMask
    \/ FillColumn
    \/ ScanFault
    \/ ReturnMask
    \/ RejectSubSamples
    \/ Prepare
    \/ RefineVoxel
    \/ RefineFault
    \/ ReturnPartials

SpecMask == InitMask /\ [][NextMask]_vars

\* Every caller of fill_in_profiles: the structure mask, and
\* Dose.np_array_like(image) on a 2 x 2 x 2 image grid.
InitScan ==
    \/ InitMask
    \/ /\ Fresh
       /\ SAFE_MODE \in BOOLEAN
       /\ op \in {o \in DoseOps : o.image}
       /\ grid = CubicGrid(2)
       /\ structure = NoSegment
       /\ pc = "call"

NextScan ==
    \/ EnterMask
    \/ EnterDose
    \/ FillColumn
    \/ ScanFault
    \/ ReturnMask
    \/ RejectSubSamples
    \/ Prepare
    \/ RefineVoxel
    \/ RefineFault
    \/ ReturnPartials
    \/ Scrub

SpecScan == InitScan /\ [][NextScan]_vars

\* Structure.np_mask_like with every collaborator query answered, on the grid of the end-to-end
\* scenarios: 4 x 4 x 4 voxels of one Unit, origin (0, 0, 0).
InitE2E ==
    /\ Fresh
    /\ SAFE_MODE \in BOOLEAN
    /\ op \in {o \in MaskOps : ~o.sub_given \/ o.sub_samples = 3}
    /\ grid = CubicGrid(4)
    /\ structure \in {Enclosing(4), Outside(4)}
    /\ pc = "call"

NextE2E ==
    \/ EnterMask
    \/ FillColumn
    \/ ReturnMask
    \/ Prepare
    \/ RefineVoxel
    \/ ReturnPartials

SpecE2E == InitE2E /\ [][NextE2E]_vars

\* Dose.np_array_like(image) on a 2 x 2 x 2 grid.
InitDose ==
    /\ Fresh
    /\ SAFE_MODE \in BOOLEAN
    /\ op \in DoseOps
    /\ grid = CubicGrid(2)
    /\ structure = NoSegment
    /\ pc = "call"

NextDose ==
    \/ EnterDose
    \/ FillColumn
    \/ ScanFault
    \/ GetVoxelsPlane
    \/ VoxelsFault
    \/ Calibrate
    \/ Scrub

SpecDose == InitDose /\ [][NextDose]_vars

\* to_ndarray and check_arrays called on their own.
InitMarshal ==
    /\ Fresh
    /\ SAFE_MODE \in BOOLEAN
    /\ op = NoOp
    /\ grid = CubicGrid(1)
    /\ structure = NoSegment
    /\ pc = "idle"

NextMarshal ==
    \/ ToNdarrayCall
    \/ Alloc
    \/ Copy
    \/ Finally
    \/ VerifyReturn
    \/ CheckArrays

SpecMarshal == InitMarshal /\ [][NextMarshal]_vars

----------------------------------------------------------------------------
(* Properties.                                                             *)

PreconditionErrors == {"sub_samples must be > 1", "structure has no segment data"}

\* GetSegmentProfile queries issued so far by the running call.
Queries == Len(calls) + nsub

Columns == grid.XSize * grid.YSize

\* The raw sample behind entry i of a dose array: what GetDoseProfile wrote
\* for its column, or what GetVoxels wrote for its plane.
RawProfile(i) == calls[i[1] * grid.YSize + i[2] + 1].wrote[i[3] + 1]

RawVoxel(i) == Float(calls[i[3] + 1].wrote[i[1] * grid.YSize + i[2] + 1])

(* C1: a call of make_segment_mask_for_grid that fails on a precondition   *)
(* (sub_samples <= 1, or a structure without segment data) has issued no   *)
(* GetSegmentProfile query when the failure is raised.                     *)
C1_PreconditionsBeforeQueries ==
    (pc = "raised" /\ error \in PreconditionErrors) => Queries = 0

(* C2: with scale = dose(1) - dose(0) and offset = dose(0) / scale, the    *)
(* calibration scale * A + offset maps the raw samples 0 and 1 to the two  *)
(* reference doses dose(0) and dose(1), whenever dose(1) # dose(0).        *)
C2_CalibrationReproducesReferences ==
    (op.fn = "dose" /\ ~op.image /\ pc \in {"scrub", "done"}) =>
        /\ calibrated(calib.scale, calib.offset, Float(0)) = Float(calib.d0)
        /\ calibrated(calib.scale, calib.offset, Float(1)) = Float(calib.d1)

(* C3: the verification fails exactly when source and destination differ   *)
(* in length or in some element: check_arrays accepts two arrays only when *)
(* they are equal, and in SAFE_MODE to_ndarray returns when its copy       *)
(* equals its source (the empty array included) and raises otherwise.      *)
C3_VerificationDetectsEveryMismatch ==
    /\ chk.out # "none" => (chk.out = "ok" <=> chk.a = chk.b)
    /\ (SAFE_MODE /\ m.pc = "idle" /\ m.out \notin {"none", "PinningFailure", "CopyFailure"})
           => (m.out = "returned" <=> m.src = m.dest)

(* C4: to_ndarray holds no pin before Alloc, exactly one from Alloc to the *)
(* end of the copy, and none once it has returned or raised, whatever the  *)
(* exit: after any sequence of calls no pin is outstanding.                *)
C4_PinReleasedOnEveryExit ==
    /\ m.pc \in {"try", "finally"} => pins = 1
    /\ m.pc \in {"idle", "alloc", "verify"} => pins = 0

C4_Witness ==
    /\ m.pc = "idle"
    /\ pins = 0
    /\ ncalls = 2
    /\ m.out \in {"CopyFailure", "Arrays have different values!"}

(* C5: in make_segment_mask_for_grid with sub_samples, mask_partials lies  *)
(* in [0, 1] (the inside count of a voxel never exceeds sub_samples^3) and *)
(* is 0 at every voxel outside dilated XOR eroded, mask_eroded is 0 at     *)
(* every voxel of that boundary, and every returned value lies in [0, 1]   *)
(* and equals the eroded value at every voxel outside the boundary.        *)
C5_PartialVolumeBounded ==
    (op.fn = "mask" /\ op.sub_given /\ pc \in {"refine", "done"}) =>
        LET dil == binary_dilation(mask_array)
            ero == binary_erosion(mask_array)
        IN \A i \in Idx(grid) :
              LET b == dil[i] # ero[i] IN
              /\ FLe(Float(0), mask_partials[i])
              /\ FLe(mask_partials[i], Float(1))
              /\ ~b => mask_partials[i] = Float(0)
              /\ b => ~mask_eroded[i]
              /\ mask_eroded[i] = ero[i]
              /\ pc = "done" =>
                    /\ FLe(Float(0), result[i])
                    /\ FLe(result[i], Float(1))
                    /\ ~b => result[i] = (IF ero[i] THEN Float(1) ELSE Float(0))

C5_Witness ==
    /\ op.fn = "mask"
    /\ op.sub_given
    /\ pc = "done"
    /\ \E i \in Idx(grid) : mask_eroded[i] /\ result[i] = Float(1)
    /\ \E i \in Idx(grid) : mask_boundary[i] /\ result[i] \notin {Float(0), Float(1)}

(* C6: fill_in_profiles queries the columns in x-outer, y-inner order,     *)
(* each once, from start = Origin + x*XRes*XDirection + y*YRes*YDirection  *)
(* to stop = start + (ZSize - 1)*ZRes*ZDirection, and slice [x, y, :] of   *)
(* its array holds what that query wrote (copied through the pre-buffer    *)
(* for a structure mask), whatever the buffer held before.                 *)
C6_ProfileScan ==
    /\ Len(calls) <= Columns
    /\ pc \in {"scanned", "refine", "done", "scrub"} => Len(calls) = Columns
    /\ \A k \in 1..Len(calls) :
          LET cx == (k - 1) \div grid.YSize
              cy == (k - 1) % grid.YSize
              start == VAdd(grid.Origin,
                            VAdd(VMul(cx * grid.XRes, grid.XDirection),
                                 VMul(cy * grid.YRes, grid.YDirection)))
              stored == ~calls[k].failed
                           /\ ~(k = Len(calls) /\ error = "Arrays have different values!")
          IN /\ calls[k].start = start
             /\ calls[k].stop =
                    VAdd(start, VMul((grid.ZSize - 1) * grid.ZRes, grid.ZDirection))
             /\ stored =>
                    \A zi \in 0..(grid.ZSize - 1) :
                        mask_array[<<cx, cy, zi>>]
                            = (IF op.fn = "dose" THEN calls[k].wrote[zi + 1]
                               ELSE IF calls[k].wrote[zi + 1] THEN Float(1)
                               ELSE Float(0))

C6_Witness ==
    /\ op.fn = "mask"
    /\ pc = "scanned"
    /\ grid = RotatedGrid
    /\ \E i \in Idx(grid) : mask_array[i] = Float(1)
    /\ \E i \in Idx(grid) : mask_array[i] = Float(0)
    /\ \E k \in 2..Len(calls) : \E zi \in 1..grid.ZSize :
          calls[k].wrote[zi] # calls[k - 1].wrote[zi]

(* C7, as the claim states it: on either path of make_dose_for_grid every  *)
(* entry whose raw sample was NaN is 0.0 and every other entry is          *)
(* scale * raw + offset, for the scale and offset of the dose's references.*)
(* The image path never reads the references, so there the entry has to be *)
(* the calibrated value whatever the two references are.                   *)
C7_EveryPathCalibrated ==
    (op.fn = "dose" /\ pc = "done") =>
        \A i \in Idx(grid) :
            IF op.image
            THEN \A d0 \in Refs : \A d1 \in Refs \ {d0} :
                    result[i] = IF isnan(RawProfile(i)) THEN Float(0)
                                ELSE calibrated(Scale(d0, d1), Offset(d0, Scale(d0, d1)),
                                                RawProfile(i))
            ELSE result[i] = calibrated(calib.scale, calib.offset, RawVoxel(i))

(* C7, amended: no entry of the array make_dose_for_grid returns is NaN;   *)
(* on the image path an entry is 0.0 where GetDoseProfile wrote NaN and    *)
(* the written dose itself elsewhere (no calibration is applied there); on *)
(* the dose path every entry is scale * raw + offset of its raw voxel.     *)
C7_DoseScrubbed ==
    (op.fn = "dose" /\ pc = "done") =>
        \A i \in Idx(grid) :
            /\ ~isnan(result[i])
            /\ IF op.image
               THEN result[i] = IF isnan(RawProfile(i)) THEN Float(0) ELSE RawProfile(i)
               ELSE result[i] = calibrated(calib.scale, calib.offset, RawVoxel(i))

C7_Witness ==
    /\ op.fn = "dose"
    /\ op.image
    /\ pc = "done"
    /\ isnan(RawProfile(<<1, 1, 1>>))
    /\ result[<<1, 1, 1>>] = Float(0)
    /\ result[<<0, 0, 0>>] = Float(1)

(* C8: on the 4 x 4 x 4 grid, for a structure that encloses the grid the   *)
(* binary mask is 1 everywhere and so is the mask with sub_samples = 3,    *)
(* the face voxels that erosion removes included; for a structure outside  *)
(* the grid both are 0 everywhere.                                         *)
C8_EndToEnd ==
    pc = "done" =>
        \A i \in Idx(grid) :
            result[i] = IF structure = Enclosing(4) THEN Float(1) ELSE Float(0)

C8_Witness ==
    /\ pc = "done"
    /\ op.sub_given
    /\ op.sub_samples = 3
    /\ structure = Enclosing(4)
    /\ ~mask_eroded[<<0, 0, 0>>]
    /\ mask_eroded[<<1, 1, 1>>]
    /\ result[<<0, 0, 0>>] = Float(1)

(* C9: a profile query that raises ends the call with that error: it is    *)
(* the last query issued, nothing is retried, and no array is returned.    *)
C9_CollaboratorFaultIsFatal ==
    /\ \A k \in 1..Len(calls) :
          calls[k].failed =>
              /\ k = Len(calls)
              /\ pc = "raised"
              /\ error = "CollaboratorFault"
    /\ error = "CollaboratorFault" => (pc = "raised" /\ result = NoArray)
    /\ pc = "raised" => ~ENABLED NextScan

C9_Witness ==
    /\ op.fn = "mask"
    /\ pc = "raised"
    /\ error = "CollaboratorFault"
    /\ Len(calls) = 2
    /\ calls[2].failed
    /\ ~calls[1].failed

(* C10: make_segment_mask_for_grid called with an integer sub_samples <= 1 *)
(* on a structure with segment data ends with "sub_samples must be > 1"    *)
(* and no array; with sub_samples > 1 it never ends with that error.       *)
C10_SubSampleValidation ==
    (op.fn = "mask" /\ op.sub_given /\ structure.HasSegment /\ pc \in {"done", "raised"}) =>
        IF op.sub_samples <= 1
        THEN pc = "raised" /\ error = "sub_samples must be > 1"
        ELSE error # "sub_samples must be > 1"

====
